---- MODULE Spec2Model ----
(***************************************************************************)
(* Model of the disaster environment simulator (disaster_environment.py)  *)
(* and of the SensorAgent monitoring behaviour (sensor_agent.py).         *)
(*                                                                         *)
(* Numbers.  The program computes with floats; the model computes with    *)
(* integers.  Condition fields are held in their natural units (cm, AQI,  *)
(* Richter, ...) and every random draw is taken from a small set of       *)
(* integer values inside the range the code draws from; the six draws of  *)
(* one EnvironmentalConditions call are taken together, as one record.    *)
(* The severity function is checked on a finer grid: its inputs are       *)
(* counted in 1/Grid-ths of a unit, so that bucket borders such as        *)
(* 162.5 cm and 6.25 Richter are inputs.  The ratio comparisons           *)
(*     (value - threshold) / (max_value - threshold) < 1/4, 1/2, 3/4      *)
(* are done cross-multiplied, which is exact.                             *)
(*                                                                         *)
(* Specifications.  Spec is the agent: SensorAgent.__init__ and the       *)
(* activations of run().  SpecEnv is the DisasterEnvironment on its own,  *)
(* its three operations called in any order.  SpecSev is                  *)
(* _calculate_severity applied to one input.  SpecAll is the agent with   *)
(* the environment's operations also called from outside run().            *)
(* SpecOverlap is the agent with activations of run() that overlap at      *)
(* their sends.  SpecForced is one tick on conditions set by hand.         *)
(* SpecLong is a run of many ticks on a fresh environment.                 *)
(***************************************************************************)
EXTENDS Integers, Sequences, FiniteSets, TLC

VARIABLES
    \* SensorAgent attributes (sensor_agent.py, SensorAgent.__init__)
    num_locations,        \* self.num_locations
    monitoring_interval,  \* self.monitoring_interval
    coordinator_jid,      \* self.coordinator_jid (None or a JID)
    simulate_disasters,   \* self.simulate_disasters
    detected_events,      \* self.detected_events, the agent's event log
    \* DisasterEnvironment attributes (disaster_environment.py)
    locations,            \* self.locations, in registry order
    conditions,           \* self.conditions, one record per location
    active_disasters,     \* self.active_disasters
    event_history,        \* self.event_history
    \* EnvironmentMonitoringBehaviour.run, one activation
    pc,                   \* where run() stands: "idle" or suspended in a send
    new_disasters,        \* run's local new_disasters
    idx,                  \* next element of new_disasters the for loop takes
    draw,                 \* the gate's last random.random(), in hundredths
    outbox,               \* the messages handed to self.send, in order
    suspended,            \* further activations suspended in a send
    \* bookkeeping the claims are stated on
    clock,                \* number of update_conditions calls so far
    produced,             \* every event run() got from detection or injection
    tick_injected,        \* events the current activation of run() injected
    injected,             \* simulate_random_disaster calls that appended
    last_op,              \* the operation that acted last
    returned,             \* what the last environment call returned
    \* _calculate_severity taken alone
    sev_in,               \* <<value, threshold, max_value>> in 1/Grid units
    sev_out               \* <<its result>>, or << >> before the call

agent_vars == <<num_locations, monitoring_interval, coordinator_jid,
                simulate_disasters, detected_events>>
env_vars == <<locations, conditions, active_disasters, event_history>>
run_vars == <<pc, new_disasters, idx, draw, outbox, suspended>>
book_vars == <<clock, produced, tick_injected, injected, last_op, returned>>
sev_vars == <<sev_in, sev_out>>
vars == <<agent_vars, env_vars, run_vars, book_vars, sev_vars>>

None == "None"

Max(a, b) == IF a >= b THEN a ELSE b
Min(a, b) == IF a <= b THEN a ELSE b

\* The elements of a sequence, as a set.
Range(s) == {s[i] : i \in DOMAIN s}

(***************************************************************************)
(* Enumerations                                                            *)
(***************************************************************************)
FLOOD == "flood"
EARTHQUAKE == "earthquake"
FIRE == "fire"
NO_DISASTER == "none"
DisasterType == {FLOOD, EARTHQUAKE, FIRE, NO_DISASTER}

NONE == 0
LOW == 1
MEDIUM == 2
HIGH == 3
CRITICAL == 4
SeverityLevel == {NONE, LOW, MEDIUM, HIGH, CRITICAL}

\* SeverityLevel.name, as the log entry and the report carry it.
SeverityName(s) ==
    CASE s = NONE -> "NONE"
      [] s = LOW -> "LOW"
      [] s = MEDIUM -> "MEDIUM"
      [] s = HIGH -> "HIGH"
      [] s = CRITICAL -> "CRITICAL"

(***************************************************************************)
(* _calculate_severity                                                     *)
(***************************************************************************)
\* The outcome of a call that raises ZeroDivisionError; no SeverityLevel.
ZeroDivisionError == -1

\* ratio < num/den, for ratio = (value - threshold) / (max_value - threshold)
\* with a nonzero denominator: both sides multiplied by den * d * d > 0.
RatioBelow(value, threshold, max_value, num, den) ==
    LET d == max_value - threshold
    IN den * (value - threshold) * d < num * d * d

RatioAtMost(value, threshold, max_value, num, den) ==
    LET d == max_value - threshold
    IN den * (value - threshold) * d <= num * d * d

calculate_severity_inclusive(value, threshold, max_value) ==
    IF value < threshold THEN NONE
    ELSE IF max_value = threshold THEN ZeroDivisionError
    ELSE IF RatioAtMost(value, threshold, max_value, 1, 4) THEN LOW
    ELSE IF RatioAtMost(value, threshold, max_value, 1, 2) THEN MEDIUM
    ELSE IF RatioAtMost(value, threshold, max_value, 3, 4) THEN HIGH
    ELSE CRITICAL

calculate_severity_wrapping(value, threshold, max_value) ==
    IF value < threshold \/ value > max_value THEN NONE
    ELSE IF max_value = threshold THEN ZeroDivisionError
    ELSE IF RatioBelow(value, threshold, max_value, 1, 4) THEN LOW
    ELSE IF RatioBelow(value, threshold, max_value, 1, 2) THEN MEDIUM
    ELSE IF RatioBelow(value, threshold, max_value, 3, 4) THEN HIGH
    ELSE CRITICAL

calculate_severity_swapped(value, threshold, max_value) ==
    IF value < threshold THEN NONE
    ELSE IF max_value = threshold THEN ZeroDivisionError
    ELSE IF RatioBelow(value, threshold, max_value, 1, 4) THEN LOW
    ELSE IF RatioBelow(value, threshold, max_value, 1, 2) THEN HIGH
    ELSE IF RatioBelow(value, threshold, max_value, 3, 4) THEN MEDIUM
    ELSE CRITICAL

\* DisasterEnvironment._calculate_severity.  With max_value = threshold the
\* division raises for every value that is not below the threshold.
calculate_severity(value, threshold, max_value) ==
    IF value < threshold THEN NONE
    ELSE IF max_value = threshold THEN ZeroDivisionError
    ELSE IF RatioBelow(value, threshold, max_value, 1, 4) THEN LOW
    ELSE IF RatioBelow(value, threshold, max_value, 1, 2) THEN MEDIUM
    ELSE IF RatioBelow(value, threshold, max_value, 3, 4) THEN HIGH
    ELSE CRITICAL

(***************************************************************************)
(* Locations and conditions                                                *)
(***************************************************************************)
location_names ==
    << "Downtown", "Harbor District", "Industrial Zone", "Residential Area",
       "Hospital District", "Airport", "Shopping Center", "University Campus",
       "Power Plant", "Water Treatment Facility" >>

\* _generate_locations: one Location per name, for i in range(min(num, 10)).
\* A Location is modelled by its unique name; its random coordinates are
\* carried along by the code and never read by the operations modelled here.
generate_locations(num) ==
    SubSeq(location_names, 1, Max(0, Min(num, Len(location_names))))

Conditions(t, h, w, wl, sl, sa) ==
    [temperature |-> t, humidity |-> h, wind_speed |-> w, water_level |-> wl,
     smoke_level |-> sl, seismic_activity |-> sa]

\* EnvironmentalConditions.__init__: six uniform draws, from [15,35], [30,90],
\* [0,50], [0,100], [0,100] and [0,10].  The draws the model takes: the low
\* end of every range, and the high end of every range but for a seismic
\* activity of 5, the earthquake threshold itself.
InitialDraws ==
    { Conditions(15, 30, 0, 0, 0, 0),
      Conditions(35, 90, 50, 100, 100, 5) }

\* What earlier update_conditions calls can have left behind: every field
\* can be driven anywhere in its clamp range.  One record at the flood and
\* earthquake thresholds, one step below the fire threshold and next to the
\* upper clamp of the other fields; one at the upper clamp of the three
\* monitored fields.
AgedDraws ==
    { Conditions(49, 100, 100, 150, 290, 5),
      Conditions(1, 0, 0, 200, 500, 10) }

\* EnvironmentalConditions.update draws six uniform perturbations, from
\* [-2,2], [-5,5], [-5,5], [-10,10], [-10,10] and [-1,1].  The draws the
\* model takes: every field up by its maximum, every field down by its
\* maximum.
Perturbations ==
    { Conditions(2, 5, 5, 10, 10, 1),
      Conditions(-2, -5, -5, -10, -10, -1) }

Clamp_unbounded(lo, hi, v) == Max(lo, v)

\* max(lo, min(hi, v))
Clamp(lo, hi, v) == Max(lo, Min(hi, v))

\* EnvironmentalConditions.update with the perturbation d.
update(c, d) ==
    [temperature |-> Clamp(0, 50, c.temperature + d.temperature),
     humidity |-> Clamp(0, 100, c.humidity + d.humidity),
     wind_speed |-> Clamp(0, 100, c.wind_speed + d.wind_speed),
     water_level |-> Clamp(0, 200, c.water_level + d.water_level),
     smoke_level |-> Clamp(0, 500, c.smoke_level + d.smoke_level),
     seismic_activity |-> Clamp(0, 10, c.seismic_activity + d.seismic_activity)]

(***************************************************************************)
(* Events, log entries and reports                                         *)
(***************************************************************************)
\* DisasterEvent.__init__: timestamp = datetime.now(), active = True.  Time
\* is counted in update_conditions calls.
DisasterEvent(disaster_type, severity, location, now) ==
    [disaster_type |-> disaster_type, severity |-> severity,
     location |-> location, timestamp |-> now, active |-> TRUE]

\* datetime.isoformat()
isoformat(t) == <<"iso", t>>

SENSOR_JID == "nmy403agent@xmpp.jp"
COORDINATOR_JID == "coordinator@xmpp.jp"

\* The dict _log_disaster_event appends to agent.detected_events.
LogEntry(disaster) ==
    [timestamp |-> isoformat(disaster.timestamp),
     type |-> disaster.disaster_type,
     severity |-> SeverityName(disaster.severity),
     location |-> disaster.location]

\* The Message _report_disaster builds and hands to self.send.
Report(disaster, to) ==
    [to |-> to, performative |-> "inform", ontology |-> "disaster-response",
     protocol |-> "disaster-detection",
     body |-> [event_type |-> "disaster_detected",
               disaster_type |-> disaster.disaster_type,
               severity |-> SeverityName(disaster.severity),
               location |-> disaster.location,
               timestamp |-> isoformat(disaster.timestamp),
               sensor_id |-> SENSOR_JID]]

(***************************************************************************)
(* detect_disasters                                                        *)
(***************************************************************************)
FLOOD_WATER_LEVEL == 150
FLOOD_MAX == 200
FIRE_SMOKE_LEVEL == 300
FIRE_MAX == 500
EARTHQUAKE_SEISMIC == 5
EARTHQUAKE_MAX == 10

Exceeds_inverted(value, threshold) == value < threshold

Exceeds_inclusive(value, threshold) == value >= threshold

\* The trigger of each of the three rules: value > threshold.
Exceeds(value, threshold) == value > threshold

RuleEvents_fire_first(location, c, now) ==
    (IF Exceeds(c.smoke_level, FIRE_SMOKE_LEVEL)
     THEN << DisasterEvent(FIRE,
               calculate_severity(c.smoke_level, FIRE_SMOKE_LEVEL, FIRE_MAX),
               location, now) >>
     ELSE << >>)
    \o
    (IF Exceeds(c.water_level, FLOOD_WATER_LEVEL)
     THEN << DisasterEvent(FLOOD,
               calculate_severity(c.water_level, FLOOD_WATER_LEVEL, FLOOD_MAX),
               location, now) >>
     ELSE << >>)
    \o
    (IF Exceeds(c.seismic_activity, EARTHQUAKE_SEISMIC)
     THEN << DisasterEvent(EARTHQUAKE,
               calculate_severity(c.seismic_activity, EARTHQUAKE_SEISMIC,
                                  EARTHQUAKE_MAX),
               location, now) >>
     ELSE << >>)

\* The body of detect_disasters' loop for one location: the flood check, the
\* fire check, the earthquake check, each appending at most one event.
RuleEvents(location, c, now) ==
    (IF Exceeds(c.water_level, FLOOD_WATER_LEVEL)
     THEN << DisasterEvent(FLOOD,
               calculate_severity(c.water_level, FLOOD_WATER_LEVEL, FLOOD_MAX),
               location, now) >>
     ELSE << >>)
    \o
    (IF Exceeds(c.smoke_level, FIRE_SMOKE_LEVEL)
     THEN << DisasterEvent(FIRE,
               calculate_severity(c.smoke_level, FIRE_SMOKE_LEVEL, FIRE_MAX),
               location, now) >>
     ELSE << >>)
    \o
    (IF Exceeds(c.seismic_activity, EARTHQUAKE_SEISMIC)
     THEN << DisasterEvent(EARTHQUAKE,
               calculate_severity(c.seismic_activity, EARTHQUAKE_SEISMIC,
                                  EARTHQUAKE_MAX),
               location, now) >>
     ELSE << >>)

\* new_disasters after the loop over self.conditions.items(): the dict was
\* built from self.locations, so it iterates in registry order.
RECURSIVE Detected(_, _, _, _)
Detected(locs, conds, now, i) ==
    IF i > Len(locs) THEN << >>
    ELSE RuleEvents(locs[i], conds[locs[i]], now) \o Detected(locs, conds, now, i + 1)

detect(locs, conds, now) == Detected(locs, conds, now, 1)

(***************************************************************************)
(* Bounds of the model                                                     *)
(***************************************************************************)
MaxUpdates == 2     \* update_conditions calls in one behaviour
MaxEvents == 4      \* events the store holds in one behaviour
MaxSimulated == 1   \* simulate_random_disaster calls from outside run()

(***************************************************************************)
(* The environment's operations, called on their own                      *)
(***************************************************************************)
extend_replacing(list, items) == items

extend_resolving(list, items) ==
    [k \in DOMAIN list |-> [list[k] EXCEPT !.active = FALSE]] \o items

extend_deduplicating(list, items) ==
    list \o SelectSeq(items, LAMBDA e :
                \A k \in DOMAIN list :
                    \/ list[k].disaster_type # e.disaster_type
                    \/ list[k].location # e.location)

\* list.extend(items)
extend(list, items) == list \o items

Updated_first_only(conds, ds) ==
    [l \in DOMAIN conds |->
        IF l = locations[1] THEN update(conds[l], ds[l]) ELSE conds[l]]

\* self.conditions after update_conditions, location l perturbed by ds[l].
Updated(conds, ds) == [l \in DOMAIN conds |-> update(conds[l], ds[l])]

update_conditions ==
    /\ clock < MaxUpdates
    /\ \E ds \in [DOMAIN conditions -> Perturbations] :
           conditions' = Updated(conditions, ds)
    /\ clock' = clock + 1
    /\ last_op' = "update_conditions"
    /\ returned' = None
    /\ UNCHANGED <<agent_vars, locations, active_disasters, event_history,
                   run_vars, produced, tick_injected, injected, sev_vars>>

detect_disasters_history_only ==
    LET found == detect(locations, conditions, clock)
    IN /\ Len(event_history) + Len(found) <= MaxEvents
       /\ active_disasters' = active_disasters
       /\ event_history' = extend(event_history, found)
       /\ returned' = found
       /\ last_op' = "detect_disasters"
       /\ UNCHANGED <<agent_vars, locations, conditions, run_vars, clock,
                      produced, tick_injected, injected, sev_vars>>

detect_disasters_deduplicating ==
    LET found == SelectSeq(detect(locations, conditions, clock), LAMBDA e :
                     \A k \in DOMAIN active_disasters :
                         \/ active_disasters[k].disaster_type # e.disaster_type
                         \/ active_disasters[k].location # e.location)
    IN /\ Len(event_history) + Len(found) <= MaxEvents
       /\ active_disasters' = extend(active_disasters, found)
       /\ event_history' = extend(event_history, found)
       /\ returned' = found
       /\ last_op' = "detect_disasters"
       /\ UNCHANGED <<agent_vars, locations, conditions, run_vars, clock,
                      produced, tick_injected, injected, sev_vars>>

detect_disasters ==
    LET found == detect(locations, conditions, clock)
    IN /\ Len(event_history) + Len(found) <= MaxEvents
       /\ active_disasters' = extend(active_disasters, found)
       /\ event_history' = extend(event_history, found)
       /\ returned' = found
       /\ last_op' = "detect_disasters"
       /\ UNCHANGED <<agent_vars, locations, conditions, run_vars, clock,
                      produced, tick_injected, injected, sev_vars>>

\* simulate_random_disaster draws a type out of three and a severity out of
\* four with random.choice.  The draws the model takes:
InjectedDraws ==
    { <<FLOOD, LOW>>, <<EARTHQUAKE, HIGH>>, <<FIRE, CRITICAL>> }

IndexError == "IndexError"

\* random.choice(self.locations) raises IndexError on an empty list, before
\* anything is appended.
simulate_random_disaster ==
    /\ Len(event_history) < MaxEvents
    /\ injected < MaxSimulated
    /\ IF locations = << >>
       THEN /\ returned' = IndexError
            /\ UNCHANGED <<active_disasters, event_history, injected>>
       ELSE \E d \in InjectedDraws, l \in Range(locations) :
                LET event == DisasterEvent(d[1], d[2], l, clock)
                IN /\ active_disasters' = Append(active_disasters, event)
                   /\ event_history' = Append(event_history, event)
                   /\ returned' = event
                   /\ injected' = injected + 1
    /\ last_op' = "simulate_random_disaster"
    /\ UNCHANGED <<agent_vars, locations, conditions, run_vars, clock,
                   produced, tick_injected, sev_vars>>

(***************************************************************************)
(* EnvironmentMonitoringBehaviour.run                                      *)
(*                                                                         *)
(* run() is a coroutine: it runs without interruption up to the next       *)
(* `await self.send(msg)`, the only place where it is suspended.           *)
(* _report_disaster returns without suspending when no coordinator is set. *)
(* The periodic behaviour starts run() again only after it has returned.   *)
(***************************************************************************)
\* random.random() in hundredths: 0.09 and 0.10.
RandomDraws == {9, 10}

MAX_ACTIVE_FOR_SIMULATION == 3
SIMULATION_CHANCE == 10

GateOpen_inclusive(enabled, active_count) ==
    enabled /\ active_count <= MAX_ACTIVE_FOR_SIMULATION

\* self.agent.simulate_disasters and len(active_disasters) < 3
GateOpen(enabled, active_count) ==
    enabled /\ active_count < MAX_ACTIVE_FOR_SIMULATION

\* random.random() < 0.1
DrawHits(r) == r < SIMULATION_CHANCE

ShouldReport_always(jid) == TRUE

\* if self.agent.coordinator_jid:
ShouldReport(jid) == jid # None

LoggedFrom_last_only(log, nd, i) ==
    IF i > Len(nd) THEN log ELSE Append(log, LogEntry(nd[Len(nd)]))

\* The log entries of new_disasters[i .. Len], appended one after the other.
LoggedFrom(log, nd, i) ==
    log \o [k \in 1 .. (Len(nd) - i + 1) |-> LogEntry(nd[i + k - 1])]

\* The end of run(): the behaviour waits for its next period.
Finish(log, act, hist, prod, inj) ==
    /\ detected_events' = log
    /\ active_disasters' = act
    /\ event_history' = hist
    /\ produced' = prod
    /\ tick_injected' = inj
    /\ outbox' = outbox
    /\ pc' = "idle"

\* Lines 55-62: the gate, the draw, the injection, its log entry and its
\* report.  log, act, hist, prod, inj are the values this stretch of run()
\* has built so far.
Gate(log, act, hist, prod, inj, now) ==
    IF GateOpen(simulate_disasters, Len(act))
    THEN \E r \in RandomDraws :
            /\ draw' = r
            /\ IF ~DrawHits(r)
               THEN Finish(log, act, hist, prod, inj)
               ELSE IF locations = << >>
               THEN \* random.choice raises; the runtime kills the behaviour
                    /\ detected_events' = log
                    /\ active_disasters' = act
                    /\ event_history' = hist
                    /\ produced' = prod
                    /\ tick_injected' = inj
                    /\ outbox' = outbox
                    /\ pc' = "killed"
               ELSE \E d \in InjectedDraws, l \in Range(locations) :
                        LET simulated == DisasterEvent(d[1], d[2], l, now)
                        IN /\ active_disasters' = Append(act, simulated)
                           /\ event_history' = Append(hist, simulated)
                           /\ detected_events' = Append(log, LogEntry(simulated))
                           /\ produced' = Append(prod, simulated)
                           /\ tick_injected' = inj + 1
                           /\ IF ShouldReport(coordinator_jid)
                              THEN /\ outbox' = Append(outbox,
                                                  Report(simulated, coordinator_jid))
                                   /\ pc' = "send_simulated"
                              ELSE /\ outbox' = outbox
                                   /\ pc' = "idle"
    ELSE /\ draw' = draw
         /\ Finish(log, act, hist, prod, inj)

\* Lines 47-53 from element i of new_disasters on, then the gate.
Proceed(nd, i, act, hist, prod, inj, now) ==
    IF i <= Len(nd) /\ ShouldReport(coordinator_jid)
    THEN \* log nd[i], hand its report to send, suspended there
         /\ detected_events' = Append(detected_events, LogEntry(nd[i]))
         /\ outbox' = Append(outbox, Report(nd[i], coordinator_jid))
         /\ pc' = "send"
         /\ idx' = i + 1
         /\ active_disasters' = act
         /\ event_history' = hist
         /\ produced' = prod
         /\ tick_injected' = inj
         /\ draw' = draw
    ELSE \* no recipient: the loop logs what is left and never suspends
         /\ idx' = Len(nd) + 1
         /\ Gate(LoggedFrom(detected_events, nd, i), act, hist, prod, inj, now)

\* A new activation of run(): update_conditions, detect_disasters, and on
\* to the first suspension or to the end.  perturbations is the set the
\* update draws from; max_updates and max_events bound the behaviour.
Run(perturbations, max_updates, max_events) ==
    /\ pc = "idle"
    /\ clock < max_updates
    /\ \E ds \in [DOMAIN conditions -> perturbations] :
          LET conds == Updated(conditions, ds)
              found == detect(locations, conds, clock + 1)
          IN /\ Len(event_history) + Len(found) < max_events
             /\ conditions' = conds
             /\ clock' = clock + 1
             /\ new_disasters' = found
             /\ Proceed(found, 1, extend(active_disasters, found),
                        extend(event_history, found), produced \o found, 0,
                        clock + 1)
    /\ injected' = injected + tick_injected'
    /\ last_op' = "run"
    /\ UNCHANGED <<num_locations, monitoring_interval, coordinator_jid,
                   simulate_disasters, locations, suspended, returned,
                   sev_vars>>

run == Run(Perturbations, MaxUpdates, MaxEvents)

\* run() resumes after `await self.send(msg)` inside the for loop.
ResumeAfterSend(max_events) ==
    /\ pc = "send"
    /\ Len(event_history) < max_events
    /\ Proceed(new_disasters, idx, active_disasters, event_history, produced,
               tick_injected, clock)
    /\ injected' = injected + (tick_injected' - tick_injected)
    /\ last_op' = "resume"
    /\ UNCHANGED <<num_locations, monitoring_interval, coordinator_jid,
                   simulate_disasters, locations, conditions, new_disasters,
                   suspended, clock, returned, sev_vars>>

resume_after_send == ResumeAfterSend(MaxEvents)

\* run() resumes after the send of the simulated disaster and returns.
resume_after_simulated ==
    /\ pc = "send_simulated"
    /\ pc' = "idle"
    /\ last_op' = "resume"
    /\ UNCHANGED <<agent_vars, env_vars, new_disasters, idx, draw, outbox,
                   suspended, clock, produced, tick_injected, injected,
                   returned, sev_vars>>

(***************************************************************************)
(* Overlapping activations of run()                                        *)
(*                                                                         *)
(* `await self.send(msg)` hands control to the event loop.  When further   *)
(* monitoring behaviours run on the same agent and environment, the loop   *)
(* may start another activation of run() there, or resume one whose send   *)
(* has completed.  pc, new_disasters, idx and tick_injected are those of   *)
(* the activation the loop is running; the others wait in suspended.       *)
(***************************************************************************)
MaxOverlapUpdates == 4   \* update_conditions calls of all activations
MaxOverlapEvents == 4    \* events the store holds

Frame == [pc |-> pc, new_disasters |-> new_disasters, idx |-> idx,
          tick_injected |-> tick_injected]

Without(s, k) == SubSeq(s, 1, k - 1) \o SubSeq(s, k + 1, Len(s))

\* The activation suspended in a send stays there while the loop turns to
\* something else.
yield_in_send ==
    /\ pc \in {"send", "send_simulated"}
    /\ clock < MaxOverlapUpdates
    /\ suspended' = Append(suspended, Frame)
    /\ pc' = "idle"
    /\ last_op' = "yield"
    /\ UNCHANGED <<agent_vars, env_vars, new_disasters, idx, draw, outbox,
                   clock, produced, tick_injected, injected, returned, sev_vars>>

\* The loop turns to a suspended activation whose send has completed.
wake_suspended ==
    /\ pc = "idle"
    /\ \E k \in DOMAIN suspended :
          /\ pc' = suspended[k].pc
          /\ new_disasters' = suspended[k].new_disasters
          /\ idx' = suspended[k].idx
          /\ tick_injected' = suspended[k].tick_injected
          /\ suspended' = Without(suspended, k)
    /\ last_op' = "wake"
    /\ UNCHANGED <<agent_vars, env_vars, draw, outbox, clock, produced,
                   injected, returned, sev_vars>>

run_overlapping == Run(Perturbations, MaxOverlapUpdates, MaxOverlapEvents)

resume_overlapping == ResumeAfterSend(MaxOverlapEvents)

(***************************************************************************)
(* Construction and the specifications                                     *)
(***************************************************************************)
\* The arguments of SensorAgent.__init__ the model takes: no location, one,
\* two; an interval of zero and the default of 5 seconds; no coordinator
\* and one; both values of simulate_disasters.
NumLocationsInputs == {0, 1, 2}
IntervalInputs == {0, 5}
CoordinatorInputs == {None, COORDINATOR_JID}

\* _calculate_severity is not called on its own in these specifications.
SevIdle == sev_in = << >> /\ sev_out = << >>

\* DisasterEnvironment.__init__(num); draws is the set the conditions of each
\* location are taken from.
EnvironmentConstructed(num, draws) ==
    /\ locations = generate_locations(num)
    /\ conditions \in [Range(locations) -> draws]
    /\ active_disasters = << >>
    /\ event_history = << >>
    /\ clock = 0
    /\ returned = None

\* No activation of run() has started.
BehaviourIdle ==
    /\ pc = "idle"
    /\ new_disasters = << >>
    /\ idx = 1
    /\ draw = None
    /\ outbox = << >>
    /\ suspended = << >>
    /\ produced = << >>
    /\ tick_injected = 0
    /\ injected = 0

\* SensorAgent.__init__, then setup() adds the monitoring behaviour.
Init ==
    /\ num_locations \in NumLocationsInputs
    /\ monitoring_interval \in IntervalInputs
    /\ coordinator_jid \in CoordinatorInputs
    /\ simulate_disasters \in BOOLEAN
    /\ EnvironmentConstructed(num_locations, InitialDraws)
    /\ detected_events = << >>
    /\ BehaviourIdle
    /\ last_op = "init"
    /\ SevIdle

\* The agent: the only caller of the environment is run().
Next ==
    \/ run
    \/ resume_after_send
    \/ resume_after_simulated

Spec == Init /\ [][Next]_vars

\* The environment on its own, its three operations called in any order.
\* It is observed from a point where update_conditions may already have run
\* for a while: the conditions are as constructed or as earlier updates
\* left them, the event store is still empty.  No agent is attached.
InitEnv ==
    /\ num_locations \in NumLocationsInputs
    /\ monitoring_interval = 5
    /\ coordinator_jid = None
    /\ simulate_disasters = FALSE
    /\ EnvironmentConstructed(num_locations, InitialDraws \cup AgedDraws)
    /\ detected_events = << >>
    /\ BehaviourIdle
    /\ last_op = "init"
    /\ SevIdle

NextEnv ==
    \/ update_conditions
    \/ detect_disasters
    \/ simulate_random_disaster

SpecEnv == InitEnv /\ [][NextEnv]_vars

\* The agent and other callers of its environment: between the stretches of
\* run(), and while run() is suspended in send, update_conditions,
\* detect_disasters and simulate_random_disaster are also called directly on
\* self.agent.environment, a public attribute.  One location is tracked.
InitAll ==
    /\ num_locations = 1
    /\ monitoring_interval = 5
    /\ coordinator_jid \in CoordinatorInputs
    /\ simulate_disasters \in BOOLEAN
    /\ EnvironmentConstructed(num_locations, InitialDraws)
    /\ detected_events = << >>
    /\ BehaviourIdle
    /\ last_op = "init"
    /\ SevIdle

NextAll ==
    \/ run
    \/ resume_after_send
    \/ resume_after_simulated
    \/ update_conditions
    \/ detect_disasters
    \/ simulate_random_disaster

SpecAll == InitAll /\ [][NextAll]_vars

\* The agent with a coordinator and simulated disasters, one location, and
\* activations of run() that overlap at their sends.
InitOverlap ==
    /\ num_locations = 1
    /\ monitoring_interval = 5
    /\ coordinator_jid = COORDINATOR_JID
    /\ simulate_disasters = TRUE
    /\ EnvironmentConstructed(num_locations, InitialDraws)
    /\ detected_events = << >>
    /\ BehaviourIdle
    /\ last_op = "init"
    /\ SevIdle

NextOverlap ==
    \/ run_overlapping
    \/ resume_overlapping
    \/ resume_after_simulated
    \/ yield_in_send
    \/ wake_suspended

SpecOverlap == InitOverlap /\ [][NextOverlap]_vars

\* A long run of ticks on a freshly constructed environment with one
\* location, no coordinator and no simulated disasters.  water_level and
\* smoke_level start at 100, the top of their initial ranges, and
\* seismic_activity at 0 or 5; an update moves all fields up, all down, or
\* the smoke up and the rest down.
MaxLongUpdates == 21   \* ticks of the long run
MaxLongEvents == 3     \* events the store holds in the long run

LongInitialDraws ==
    { Conditions(35, 90, 50, 100, 100, 0), Conditions(35, 90, 50, 100, 100, 5) }

LongPerturbations == Perturbations \cup { Conditions(-2, -5, -5, -10, 10, -1) }

InitLong ==
    /\ num_locations = 1
    /\ monitoring_interval = 5
    /\ coordinator_jid = None
    /\ simulate_disasters = FALSE
    /\ EnvironmentConstructed(num_locations, LongInitialDraws)
    /\ detected_events = << >>
    /\ BehaviourIdle
    /\ last_op = "init"
    /\ SevIdle

run_long == Run(LongPerturbations, MaxLongUpdates, MaxLongEvents)

NextLong == run_long

SpecLong == InitLong /\ [][NextLong]_vars

\* One monitoring tick on an environment whose conditions were set by hand:
\* three locations, an empty store, no coordinator, no simulated disasters.
\* Every field of every location is below its detection threshold, at a
\* distance from it of at least, or of less than, what one update can add;
\* then the smoke_level of one location is set to 400.
SubThresholdDraws ==
    { Conditions(15, 30, 0, 0, 0, 0),
      Conditions(35, 90, 50, 140, 290, 4),
      Conditions(35, 90, 50, 145, 295, 4) }

InitForced ==
    /\ num_locations = 3
    /\ monitoring_interval = 5
    /\ coordinator_jid = None
    /\ simulate_disasters = FALSE
    /\ locations = generate_locations(num_locations)
    /\ conditions \in
          { [base EXCEPT ![l].smoke_level = 400] :
                base \in [Range(generate_locations(3)) -> SubThresholdDraws],
                l \in Range(generate_locations(3)) }
    /\ active_disasters = << >>
    /\ event_history = << >>
    /\ clock = 0
    /\ returned = None
    /\ detected_events = << >>
    /\ BehaviourIdle
    /\ last_op = "init"
    /\ SevIdle

\* Without a coordinator run() is never suspended.
NextForced == run

SpecForced == InitForced /\ [][NextForced]_vars

(***************************************************************************)
(* _calculate_severity on its own                                          *)
(***************************************************************************)
Grid == 4        \* severity inputs are counted in 1/Grid-ths of a unit
SevMargin == 8   \* how far below threshold and above max_value they reach

\* (threshold, max_value) of the three rules, and two more pairs.
RulePairs ==
    { <<FLOOD_WATER_LEVEL, FLOOD_MAX>>, <<FIRE_SMOKE_LEVEL, FIRE_MAX>>,
      <<EARTHQUAKE_SEISMIC, EARTHQUAKE_MAX>> }
SevPairs == RulePairs \cup { <<0, 1>>, <<2, 5>> }

SevInputs ==
    UNION { { <<v, Grid * p[1], Grid * p[2]>> :
                v \in (Grid * p[1] - SevMargin) .. (Grid * p[2] + SevMargin) } :
            p \in SevPairs }

InitSev ==
    /\ num_locations = 0
    /\ monitoring_interval = 5
    /\ coordinator_jid = None
    /\ simulate_disasters = FALSE
    /\ EnvironmentConstructed(num_locations, InitialDraws)
    /\ detected_events = << >>
    /\ BehaviourIdle
    /\ last_op = "init"
    /\ sev_in \in SevInputs
    /\ sev_out = << >>

severity_call ==
    /\ sev_out = << >>
    /\ sev_out' = << calculate_severity(sev_in[1], sev_in[2], sev_in[3]) >>
    /\ UNCHANGED <<agent_vars, env_vars, run_vars, book_vars, sev_in>>

NextSev == severity_call

SpecSev == InitSev /\ [][NextSev]_vars

(***************************************************************************)
(* Claims                                                                  *)
(***************************************************************************)
IsPrefix(s, t) == Len(s) <= Len(t) /\ SubSeq(t, 1, Len(s)) = s

Within(lo, hi, v) == lo <= v /\ v <= hi

\* C1: in every reachable state of the environment (as constructed, and after
\* any number of update_conditions calls) every field of every tracked
\* location lies in its clamp range: temperature [0,50], humidity [0,100],
\* wind_speed [0,100], water_level [0,200], smoke_level [0,500],
\* seismic_activity [0,10].
C1_ConditionsWithinClampRanges ==
    \A l \in DOMAIN conditions :
        /\ Within(0, 50, conditions[l].temperature)
        /\ Within(0, 100, conditions[l].humidity)
        /\ Within(0, 100, conditions[l].wind_speed)
        /\ Within(0, 200, conditions[l].water_level)
        /\ Within(0, 500, conditions[l].smoke_level)
        /\ Within(0, 10, conditions[l].seismic_activity)

\* An update has just cut a value back to an upper bound at one location
\* (49 + 2 degrees give 50) and to a lower bound at another (0 - 10 cm
\* give 0).
C1_Witness ==
    /\ last_op = "update_conditions"
    /\ \E l \in DOMAIN conditions :
          conditions[l].temperature = 50 /\ conditions[l].smoke_level = 300
    /\ \E l \in DOMAIN conditions :
          conditions[l].water_level = 0 /\ conditions[l].temperature = 13

\* C2: over any sequence of update_conditions, detect_disasters and
\* simulate_random_disaster calls the active list and the history list only
\* grow at the end (every step keeps the old list as a prefix of the new
\* one), and every active event is a history event.
C2_StoreAppendOnly ==
    /\ [](Range(active_disasters) \subseteq Range(event_history))
    /\ [][/\ IsPrefix(active_disasters, active_disasters')
          /\ IsPrefix(event_history, event_history')]_vars

\* A detection has appended behind an injected event.
C2_Witness ==
    /\ last_op = "detect_disasters"
    /\ returned # << >>
    /\ injected = 1
    /\ Len(event_history) = Len(returned) + 1
    /\ Len(active_disasters) = Len(event_history)

\* C3: severity(value, threshold, max) is none for value < threshold, and
\* from the threshold on it follows ratio = (value - threshold) /
\* (max - threshold): low below 1/4, medium from 1/4 to below 1/2, high from
\* 1/2 to below 3/4, critical from 3/4 on; a ratio of exactly 1/4 is medium,
\* of exactly 1/2 high, of exactly 3/4 critical, and value = threshold is low.
C3_SeverityBuckets ==
    sev_out # << >> =>
        LET v == sev_in[1] - sev_in[2]    \* value - threshold
            d == sev_in[3] - sev_in[2]    \* max - threshold, positive
            r == sev_out[1]
        IN /\ v < 0 => r = NONE
           /\ (0 <= v /\ 4 * v < d) => r = LOW
           /\ (d <= 4 * v /\ 2 * v < d) => r = MEDIUM
           /\ (d <= 2 * v /\ 4 * v < 3 * d) => r = HIGH
           /\ 3 * d <= 4 * v => r = CRITICAL
           /\ v = 0 => r = LOW
           /\ 4 * v = d => r = MEDIUM
           /\ 2 * v = d => r = HIGH
           /\ 4 * v = 3 * d => r = CRITICAL

\* smoke_level = 350 with the fire rule (300, 500): ratio 0.25, medium.
C3_Witness ==
    /\ sev_in = << Grid * 350, Grid * FIRE_SMOKE_LEVEL, Grid * FIRE_MAX >>
    /\ sev_out = << MEDIUM >>

SevValues(threshold, max_value) ==
    { i[1] : i \in { j \in SevInputs : j[2] = threshold /\ j[3] = max_value } }

\* C10: for a fixed threshold and max_value > threshold severity is
\* non-decreasing in value under none < low < medium < high < critical: no
\* smaller value is graded above the result of the call, and no larger value
\* below it.
C10_SeverityMonotone ==
    sev_out # << >> =>
        \A u \in SevValues(sev_in[2], sev_in[3]) :
            /\ u <= sev_in[1] =>
                   calculate_severity(u, sev_in[2], sev_in[3]) <= sev_out[1]
            /\ u >= sev_in[1] =>
                   calculate_severity(u, sev_in[2], sev_in[3]) >= sev_out[1]

\* A seismic activity graded high, with smaller values graded lower and
\* larger ones higher.
C10_Witness ==
    /\ sev_in[2] = Grid * EARTHQUAKE_SEISMIC
    /\ sev_in[3] = Grid * EARTHQUAKE_MAX
    /\ sev_out = << HIGH >>
    /\ \E u \in SevValues(sev_in[2], sev_in[3]) :
          u < sev_in[1] /\ calculate_severity(u, sev_in[2], sev_in[3]) = LOW
    /\ \E u \in SevValues(sev_in[2], sev_in[3]) :
          u > sev_in[1] /\ calculate_severity(u, sev_in[2], sev_in[3]) = CRITICAL

\* The positions of the events of one type at one location in a sequence.
EventsOf(events, location, type) ==
    { i \in DOMAIN events :
        events[i].location = location /\ events[i].disaster_type = type }

\* One rule of the claim at one location: exactly one event of the type iff
\* the value is strictly above the threshold, none otherwise, and the event
\* graded by the rule's (threshold, max) pair.
RuleHolds(events, location, type, value, threshold, max_value) ==
    /\ Cardinality(EventsOf(events, location, type)) =
           IF value > threshold THEN 1 ELSE 0
    /\ \A i \in EventsOf(events, location, type) :
           events[i].severity = calculate_severity(value, threshold, max_value)

\* C4: detect_disasters returns, for every tracked location, exactly one
\* event per satisfied rule and no other event: flood iff water_level > 150,
\* fire iff smoke_level > 300, earthquake iff seismic_activity > 5 (strict),
\* each with that location and the severity of that rule's pair; so a
\* location yields between 0 and 3 events.
C4_DetectExactlyTheRules ==
    last_op = "detect_disasters" =>
        /\ \A l \in Range(locations) :
              /\ RuleHolds(returned, l, FLOOD, conditions[l].water_level, 150, 200)
              /\ RuleHolds(returned, l, FIRE, conditions[l].smoke_level, 300, 500)
              /\ RuleHolds(returned, l, EARTHQUAKE,
                           conditions[l].seismic_activity, 5, 10)
              /\ Cardinality({ i \in DOMAIN returned : returned[i].location = l })
                     \in 0 .. 3
        /\ \A i \in DOMAIN returned :
              /\ returned[i].location \in Range(locations)
              /\ returned[i].disaster_type \in {FLOOD, FIRE, EARTHQUAKE}

\* One location stands exactly at the flood and earthquake thresholds and
\* yields nothing; another yields all three events.
C4_Witness ==
    /\ last_op = "detect_disasters"
    /\ \E l \in Range(locations) :
          /\ conditions[l].water_level = 150
          /\ conditions[l].seismic_activity = 5
          /\ \A i \in DOMAIN returned : returned[i].location # l
    /\ \E l \in Range(locations) :
          Cardinality({ i \in DOMAIN returned : returned[i].location = l }) = 3

\* The place of a location in the registry and of a type among the rules.
RegistryIndex(location) ==
    CHOOSE i \in DOMAIN locations : locations[i] = location

RuleRank(type) ==
    CASE type = FLOOD -> 1 [] type = FIRE -> 2 [] type = EARTHQUAKE -> 3

InDetectionOrder(events) ==
    \A i, j \in DOMAIN events :
        i < j =>
            \/ RegistryIndex(events[i].location) < RegistryIndex(events[j].location)
            \/ /\ events[i].location = events[j].location
               /\ RuleRank(events[i].disaster_type) < RuleRank(events[j].disaster_type)

\* C5: the events of one detect_disasters call are appended to active and
\* to history in detection order: locations in registry order, within a
\* location flood before fire before earthquake; the suffix added to either
\* list is the returned sequence.
C5_DetectAppendsInOrder ==
    [][last_op' = "detect_disasters" =>
          /\ active_disasters' = active_disasters \o returned'
          /\ event_history' = event_history \o returned'
          /\ InDetectionOrder(returned')]_vars

\* A call appended, behind an injected event, a flood and an earthquake of
\* the first location and then an event of the second.
C5_Witness ==
    /\ last_op = "detect_disasters"
    /\ Len(returned) = 3
    /\ Len(event_history) = 4
    /\ returned[1].location = locations[1]
    /\ returned[1].disaster_type = FLOOD
    /\ returned[2].location = locations[1]
    /\ returned[2].disaster_type = EARTHQUAKE
    /\ returned[3].location = locations[2]

\* C6: a tick injects a synthetic event only if stimulus mode is enabled and
\* the active count, read after the tick's detected events were appended,
\* is below 3 and the tick's random draw is below 0.1; with stimulus mode
\* off no tick injects, and a tick injects at most one event.
C6_InjectionGated ==
    [][/\ tick_injected' <= 1
       /\ injected' # injected =>
             /\ simulate_disasters
             /\ injected' = injected + 1
             /\ Len(active_disasters') - 1 < 3
             /\ draw' < 10]_vars

\* A tick detected two events and then injected a third.
C6_Witness ==
    /\ Len(new_disasters) = 2
    /\ tick_injected = 1
    /\ Len(active_disasters) = 3
    /\ active_disasters[3] \notin Range(new_disasters)

\* The reports of a sequence of events, addressed to the coordinator.
ReportsOf(events) ==
    [i \in DOMAIN events |-> Report(events[i], coordinator_jid)]

\* C7: a report is handed to the transport only if a recipient is
\* configured.  With a recipient every event a tick produced (detected or
\* injected) is reported exactly once, in production order: the reports
\* sent so far are those of the first events produced, and all of them once
\* the tick has ended.  Without a recipient nothing is ever sent, and the
\* events are in the store all the same.
C7_ReportedIffRecipient ==
    /\ produced = event_history
    /\ coordinator_jid = None => outbox = << >>
    /\ coordinator_jid # None =>
          /\ IsPrefix(outbox, ReportsOf(produced))
          /\ pc = "idle" => outbox = ReportsOf(produced)

\* With a recipient: a tick that detected two events and injected a third
\* has ended, and three reports went out.
C7_Witness ==
    /\ coordinator_jid # None
    /\ pc = "idle"
    /\ Len(new_disasters) = 2
    /\ tick_injected = 1
    /\ Len(outbox) = 3

\* C8: a construction with no location or with a non-positive interval is
\* rejected: no monitoring tick ever runs for an agent with zero locations
\* or with an interval <= 0.
C8_ConfigurationRejected ==
    last_op = "run" =>
        /\ Len(locations) > 0
        /\ monitoring_interval > 0

\* C11: every event in active_disasters and in event_history, detected or
\* injected, has a disaster type among flood, earthquake, fire and a severity
\* among LOW, MEDIUM, HIGH, CRITICAL; the none type and the NONE severity
\* never appear in the store.
C11_StoredEventsTypedAndGraded ==
    \A e \in Range(active_disasters) \cup Range(event_history) :
        /\ e.disaster_type \in {FLOOD, EARTHQUAKE, FIRE}
        /\ e.severity \in {LOW, MEDIUM, HIGH, CRITICAL}

\* The store holds an injected event and a detected one that was graded LOW,
\* the grade next to NONE.
C11_Witness ==
    /\ injected = 1
    /\ \E i \in DOMAIN event_history :
          /\ event_history[i].severity = LOW
          /\ event_history[i].timestamp = 1
          /\ event_history[i].disaster_type = FLOOD
          /\ conditions[event_history[i].location].water_level = 160

SameEvent(e, f) ==
    /\ e.disaster_type = f.disaster_type
    /\ e.severity = f.severity
    /\ e.location = f.location

\* C12: when detect_disasters is called twice in a row, with no other
\* operation in between, the second call returns a sequence of the same
\* length as the first whose events agree with the first's position by
\* position in type, severity and location, and it appends these events to
\* active_disasters and event_history once more.
C12_DetectTwiceAgrees ==
    [][(last_op = "detect_disasters" /\ last_op' = "detect_disasters")
          => /\ Len(returned') = Len(returned)
             /\ \A i \in DOMAIN returned : SameEvent(returned'[i], returned[i])
             /\ active_disasters' = active_disasters \o returned'
             /\ event_history' = event_history \o returned']_vars

\* Two calls in a row have each returned the same two events; the store
\* holds them twice.
C12_Witness ==
    /\ last_op = "detect_disasters"
    /\ Len(returned) = 2
    /\ event_history = returned \o returned
    /\ active_disasters = returned \o returned

\* The largest amount one update adds to water_level, smoke_level and
\* seismic_activity (lines 75-77).
WATER_STEP == 10
SMOKE_STEP == 10
SEISMIC_STEP == 1

\* Location forced has smoke_level 400; every other field of every location
\* is at least margin steps of one update below its threshold.
OneForced(conds, forced, margin) ==
    /\ conds[forced].smoke_level = 400
    /\ \A l \in DOMAIN conds :
          /\ conds[l].water_level + margin * WATER_STEP <= FLOOD_WATER_LEVEL
          /\ conds[l].seismic_activity + margin * SEISMIC_STEP <= EARTHQUAKE_SEISMIC
          /\ l # forced =>
                conds[l].smoke_level + margin * SMOKE_STEP <= FIRE_SMOKE_LEVEL

BelowThresholds(conds, forced) ==
    /\ conds[forced].smoke_level = 400
    /\ \A l \in DOMAIN conds :
          /\ conds[l].water_level < FLOOD_WATER_LEVEL
          /\ conds[l].seismic_activity < EARTHQUAKE_SEISMIC
          /\ l # forced => conds[l].smoke_level < FIRE_SMOKE_LEVEL

\* What the tick has done: one event, a fire, in new_disasters and in both
\* lists of the store, and nothing handed to send.
OneFireNoReport ==
    /\ Len(new_disasters') = 1
    /\ new_disasters'[1].disaster_type = FIRE
    /\ Len(active_disasters') = 1
    /\ Len(event_history') = 1
    /\ outbox' = << >>

\* C13 as stated: from an empty store with 3 locations, one location forced
\* to smoke_level 400 and every other field of every location below its
\* threshold, simulated disasters off and no coordinator, one monitoring tick
\* produces exactly one event, a fire; active and history hold one event
\* each and no report is sent.
C13_OneTickOneFire ==
    [][(/\ clock = 0
        /\ Len(locations) = 3
        /\ event_history = << >>
        /\ ~simulate_disasters
        /\ coordinator_jid = None
        /\ \E forced \in DOMAIN conditions : BelowThresholds(conditions, forced)
        /\ last_op' = "run") => OneFireNoReport]_vars

\* C13 amended: the same, when every other field of every location is at
\* least one update's largest step below its threshold (water_level <= 140,
\* smoke_level <= 290, seismic_activity <= 4) before the tick.
C13_OneTickOneFireWithMargin ==
    [][(/\ clock = 0
        /\ Len(locations) = 3
        /\ event_history = << >>
        /\ ~simulate_disasters
        /\ coordinator_jid = None
        /\ \E forced \in DOMAIN conditions : OneForced(conditions, forced, 1)
        /\ last_op' = "run") => OneFireNoReport]_vars

\* After the first tick: one fire in the store, nothing sent, and a location
\* whose water, smoke and seismic values the update has raised from 140, 290
\* and 4 to exactly their thresholds; no location started closer than that.
C13_Witness ==
    /\ clock = 1
    /\ last_op = "run"
    /\ Len(event_history) = 1
    /\ event_history[1].disaster_type = FIRE
    /\ outbox = << >>
    /\ \A l \in DOMAIN conditions :
          conditions[l].water_level \in {0, 10, 130, 150}
    /\ \E l \in DOMAIN conditions :
          /\ conditions[l].water_level = FLOOD_WATER_LEVEL
          /\ conditions[l].smoke_level = FIRE_SMOKE_LEVEL
          /\ conditions[l].seismic_activity = EARTHQUAKE_SEISMIC

\* C14: no step of update_conditions, detect_disasters,
\* simulate_random_disaster or run() changes an event that is in
\* active_disasters or in event_history: its type, severity, location,
\* timestamp and active flag are in the next state what they were; and every
\* event in the store has its active flag set, from its creation on.
C14_StoredEventsNeverChange ==
    /\ [](\A e \in Range(active_disasters) \cup Range(event_history) :
              e.active = TRUE)
    /\ [][/\ \A i \in DOMAIN active_disasters :
                active_disasters'[i] = active_disasters[i]
          /\ \A i \in DOMAIN event_history :
                event_history'[i] = event_history[i]]_vars

\* The store holds an event of the first tick while the second tick is
\* suspended in send, after two more events were appended behind it.
C14_Witness ==
    /\ clock = 2
    /\ pc = "send"
    /\ Len(event_history) = 3
    /\ event_history[1].timestamp = 1
    /\ event_history[1].active = TRUE
    /\ event_history[3].timestamp = 2

\* C15: a new activation of run() advances the conditions of every tracked
\* location by exactly one update, and the events it detects are those of
\* the three rules evaluated on the updated values of every location: none
\* comes from a value as it was before the update.
C15_UpdateAllThenDetect ==
    [][last_op' = "run" =>
          /\ clock' = clock + 1
          /\ DOMAIN conditions' = Range(locations)
          /\ \A l \in Range(locations) :
                /\ \E d \in Perturbations :
                      conditions'[l] = update(conditions[l], d)
                /\ RuleHolds(new_disasters', l, FLOOD,
                             conditions'[l].water_level, 150, 200)
                /\ RuleHolds(new_disasters', l, FIRE,
                             conditions'[l].smoke_level, 300, 500)
                /\ RuleHolds(new_disasters', l, EARTHQUAKE,
                             conditions'[l].seismic_activity, 5, 10)
          /\ \A i \in DOMAIN new_disasters' :
                /\ new_disasters'[i].location \in Range(locations)
                /\ new_disasters'[i].timestamp = clock']_vars

\* The first tick has raised the seismic activity of the first location from
\* 5 to 6 and lowered that of the second from 5 to 4: detection has found
\* the earthquake of the first, which the values before the update did not
\* show, and nothing at the second.
C15_Witness ==
    /\ clock = 1
    /\ last_op = "run"
    /\ Len(locations) = 2
    /\ conditions[locations[1]].seismic_activity = 6
    /\ conditions[locations[2]].seismic_activity = 4
    /\ Len(new_disasters) = 1
    /\ new_disasters[1].location = locations[1]
    /\ new_disasters[1].disaster_type = EARTHQUAKE

\* C16: whenever an activation of run() appends an injected event, the
\* active list held fewer than 3 events right before the append, also when
\* other activations have run while this one was suspended in a send; from a
\* state with 3 or more active events no step injects; and the store never
\* holds more than 3 injected events.
C16_InjectionBelowThreeWhenOverlapping ==
    /\ [](injected <= 3)
    /\ [][/\ injected' # injected =>
                /\ injected' = injected + 1
                /\ active_disasters' # << >>
                /\ Len(active_disasters') - 1 < 3
          /\ Len(active_disasters) >= 3 => injected' = injected]_vars

\* Three activations have each injected an event and are suspended in the
\* send of its report; a fourth has run meanwhile and found the gate closed.
C16_Witness ==
    /\ injected = 3
    /\ Len(suspended) = 3
    /\ clock = 4
    /\ last_op = "run"
    /\ tick_injected = 0
    /\ Len(active_disasters) >= 3

\* C17: in every reachable state active_disasters and event_history are the
\* same sequence: the same events in the same order.
C17_ActiveEqualsHistory == active_disasters = event_history

\* Both lists hold the same three events: one a direct detect_disasters call
\* appended, one a direct simulate_random_disaster call appended, and one
\* that run() produced.
C17_Witness ==
    /\ Len(active_disasters) = 3
    /\ Len(event_history) = 3
    /\ Len(produced) = 1
    /\ injected - tick_injected = 1
    /\ \E i \in DOMAIN event_history :
          /\ event_history[i] \notin Range(produced)
          /\ event_history[i].disaster_type = EARTHQUAKE
          /\ event_history[i].severity = LOW

\* C18: from a freshly constructed environment, no flood event is detected
\* in ticks 1 to 5 and no fire event in ticks 1 to 20 (the timestamp of a
\* detected event is the number of the tick that detected it).
C18_NoEarlyFloodOrFire ==
    \A e \in Range(event_history) :
        /\ e.disaster_type = FLOOD => e.timestamp > 5
        /\ e.disaster_type = FIRE => e.timestamp > 20

\* An earthquake was detected in the very first tick and a fire in tick 21,
\* the first tick that can see smoke above 300.
C18_Witness ==
    /\ Len(event_history) = 2
    /\ event_history[1].disaster_type = EARTHQUAKE
    /\ event_history[1].timestamp = 1
    /\ event_history[2].disaster_type = FIRE
    /\ event_history[2].timestamp = 21
    /\ injected = 0

\* C19: whenever run() has returned, detected_events is as long as
\* event_history and its i-th entry holds the type, the severity (by name)
\* and the location of the i-th event of event_history.
C19_LogMirrorsHistory ==
    pc = "idle" =>
        /\ Len(detected_events) = Len(event_history)
        /\ \A i \in DOMAIN event_history :
              /\ detected_events[i].type = event_history[i].disaster_type
              /\ detected_events[i].severity =
                     SeverityName(event_history[i].severity)
              /\ detected_events[i].location = event_history[i].location

\* The first tick has returned after reporting two detected events and one
\* injected event to the coordinator; the log holds three entries, the last
\* one of them the injected event's.
C19_Witness ==
    /\ pc = "idle"
    /\ last_op = "resume"
    /\ clock = 1
    /\ coordinator_jid # None
    /\ tick_injected = 1
    /\ Len(new_disasters) = 2
    /\ Len(detected_events) = 3
    /\ detected_events[3].type = produced[3].disaster_type
    /\ produced[3].location = event_history[3].location

\* The (location, type) pairs whose rule holds on the conditions conds.
Firing(conds) ==
    { <<l, FLOOD>> : l \in { m \in DOMAIN conds :
                                conds[m].water_level > 150 } }
    \cup { <<l, FIRE>> : l \in { m \in DOMAIN conds :
                                    conds[m].smoke_level > 300 } }
    \cup { <<l, EARTHQUAKE>> : l \in { m \in DOMAIN conds :
                                          conds[m].seismic_activity > 5 } }

\* C20: in every tick, for every location and rule whose value is above the
\* threshold after the update, an event of that type and location stamped
\* with this tick is appended to active_disasters behind the events already
\* there, whether or not one of the same type and location is among them;
\* so a tick with such a value leaves at least one more active event.
C20_DetectionNeverDeduplicates ==
    [][last_op' = "run" =>
          /\ IsPrefix(active_disasters, active_disasters')
          /\ \A p \in Firing(conditions') :
                \E i \in (Len(active_disasters) + 1) .. Len(active_disasters') :
                    /\ active_disasters'[i].location = p[1]
                    /\ active_disasters'[i].disaster_type = p[2]
                    /\ active_disasters'[i].timestamp = clock'
          /\ Firing(conditions') # {} =>
                Len(active_disasters') >= Len(active_disasters) + 1]_vars

\* The second tick has appended an earthquake at a location whose
\* earthquake of the first tick is still active.
C20_Witness ==
    /\ clock = 2
    /\ last_op = "run"
    /\ \E i, j \in DOMAIN active_disasters :
          /\ i < j
          /\ active_disasters[i].disaster_type = EARTHQUAKE
          /\ active_disasters[j].disaster_type = EARTHQUAKE
          /\ active_disasters[i].location = active_disasters[j].location
          /\ active_disasters[i].timestamp = 1
          /\ active_disasters[j].timestamp = 2
          /\ active_disasters[j] \in Range(new_disasters)

====
